---- MODULE Spec2Model ----
(***************************************************************************)
(* TeleAPI (src/src/main.rs): a configuration-driven HTTP gateway.         *)
(*                                                                         *)
(* One handler invocation is modelled per request: handle_http_request     *)
(* checks the Authorization header, finds the first Command whose endpoint *)
(* equals the request path, and execute() picks one action by method and   *)
(* by which optional fields are set.  Template fields go through           *)
(* expand_vars, one state-machine step per (recursive) invocation.  The    *)
(* file system is a function from path to file; every system call is one   *)
(* step and may fail.                                                      *)
(*                                                                         *)
(* Strings that the code slices (templates, parameter names and values,    *)
(* file names, bodies) are sequences of one-character strings; strings     *)
(* that are only compared (method, path, header name and value, user and   *)
(* group names) are TLA+ strings.  Option<T> is a sequence of length 0     *)
(* (None) or 1 (Some).                                                     *)
(***************************************************************************)
EXTENDS Naturals, Sequences, FiniteSets

VARIABLES conf,   \* Config: [apikey, commands], immutable after startup
          fs,     \* file system: path -> [content, mode, uid, gid]
          alive,  \* FALSE once the process was killed by a stack overflow
          hs      \* per handler invocation: its locals and position

vars == <<conf, fs, alive, hs>>

\* ------------------------------------------------------------------ bounds

\* longest command list of a multi-command configuration
MaxCommands == 2
\* longest header list of a request
MaxHeaders == 1
\* nested expand_vars invocations the thread's stack holds before it overflows
MaxDepth == 3
\* longest template and longest parameter value of the expand_vars specification
MaxLen == 3

\* ---------------------------------------------------------------- Option<T>

None == <<>>
Some(x) == <<x>>
IsSome(o) == o # <<>>
Unwrap(o) == o[1]

\* ------------------------------------------------------------------ strings

\* str::find(c): the position (from 1) of the first c in s, or 0 for None
Find(s, c) ==
    IF \E i \in 1..Len(s) : s[i] = c
    THEN CHOOSE i \in 1..Len(s) : s[i] = c /\ \A j \in 1..(i - 1) : s[j] # c
    ELSE 0

\* all sequences over S of length at most n
RECURSIVE SeqsUpTo(_, _)
SeqsUpTo(S, n) ==
    IF n = 0 THEN {<<>>}
    ELSE LET shorter == SeqsUpTo(S, n - 1)
         IN  shorter \cup {Append(s, x) : s \in {t \in shorter : Len(t) = n - 1}, x \in S}

\* ------------------------------------------------------------ configuration

\* struct Command: every field but endpoint is an Option
MkCommand(e, sh, rf, rb, wf, u, g, m) ==
    [endpoint |-> e, shell |-> sh, read_file |-> rf, read_bin_file |-> rb,
     write_file |-> wf, user |-> u, group |-> g, mode |-> m]

\* the template the configured action fields hold: one placeholder
Tmpl == <<"{", "a", "}">>
OptTmpl == {None, Some(Tmpl)}

\* Command.mode is a u32: 420 = 0o644, 33188 = 0o100644 (a regular file's
\* st_mode) and 2147483647 = 2^31 - 1, the largest number TLC represents
Modes == {420, 33188, 2147483647}
Users == {"alice", "ghost"}
Groups == {"staff", "nogrp"}
OptOf(S) == {None} \cup {Some(x) : x \in S}

\* one-command configurations: every combination of the four action fields
\* without and with permission fields, and write_file with every combination
\* of user, group and mode
SingleCommands ==
    {MkCommand("/a", sh, rf, rb, wf, p[1], p[2], p[3]) :
        sh \in OptTmpl, rf \in OptTmpl, rb \in OptTmpl, wf \in OptTmpl,
        p \in {<<None, None, None>>, <<Some("alice"), Some("staff"), Some(420)>>}}
    \cup
    {MkCommand("/a", None, None, None, Some(Tmpl), u, g, m) :
        u \in OptOf(Users), g \in OptOf(Groups), m \in OptOf(Modes)}

\* the commands of the configurations with several (possibly duplicate) endpoints
ListCommands ==
    {MkCommand(e, None, Some(<<"f">>), None, None, None, None, None) : e \in {"/a", "/b"}}
    \cup
    {MkCommand(e, Some(<<"s">>), None, None, None, None, None, None) : e \in {"/a", "/b"}}

Configs ==
    {[apikey |-> "key", commands |-> cs] :
        cs \in {<<c>> : c \in SingleCommands} \cup SeqsUpTo(ListCommands, MaxCommands)}

\* ----------------------------------------------------------------- requests

Methods == {"GET", "POST", "PUT", "DELETE", "PATCH"}
Urls == {"/a", "/b"}
HeaderPool ==
    {[k |-> "Authorization", v |-> "key"], [k |-> "Authorization", v |-> "bad"],
     [k |-> "authorization", v |-> "key"]}
\* query strings: no parameter, or parameter a with a plain value, a value with
\* a closing brace before an opening one, or a value naming a itself
QueryValues == {<<"f">>, <<"}", "{">>, <<"{", "a", "}">>}
Queries == {<<>>} \cup {<< <<(<<"a">>), v>> >> : v \in QueryValues}
\* Request::data() and what reading it gives: no stream, valid text, bytes that
\* are not UTF-8, or an I/O error
Bodies == {"none", "text", "badutf8", "ioerr"}
BodyText == <<"x">>

Requests ==
    [method : Methods, url : Urls, headers : SeqsUpTo(HeaderPool, MaxHeaders),
     query : Queries, body : Bodies]

\* Request::get_param: the value of the first parameter of that name
GetParam(query, name) ==
    IF \E i \in 1..Len(query) : query[i][1] = name
    THEN Some(query[CHOOSE i \in 1..Len(query) :
                  /\ query[i][1] = name
                  /\ \A j \in 1..(i - 1) : query[j][1] # name][2])
    ELSE None

\* ------------------------------------------------------------- environment

\* a file created by std::fs::write: 0o644 after the umask, owned by the process
NewFile(content) == [content |-> content, mode |-> 420, uid |-> 0, gid |-> 0]
\* a file present before the request: 0o4755, owner 7, group 7
OldFile == [content |-> <<"o">>, mode |-> 2541, uid |-> 7, gid |-> 7]
NoFiles == [p \in {} |-> OldFile]
FsInits == {NoFiles, [p \in {<<"f">>} |-> OldFile]}

\* users::get_user_by_name / get_group_by_name over the system's databases
GetUserByName(name) == IF name = "alice" THEN Some(1000) ELSE None
GetGroupByName(name) == IF name = "staff" THEN Some(50) ELSE None

\* set_permissions keeping the permission bits the metadata call read
ChmodKeepsOld(file, mode) == file

\* chmod(2) applies the low twelve bits (S_IALLUGO) of the mode it is given
Chmod(file, mode) == [file EXCEPT !.mode = mode % 4096]
\* chown given the id for owner and group alike
ChownUserAndGroup(file, uid) == [file EXCEPT !.uid = uid, !.gid = uid]

\* chown(path, Some(uid), None) and chown(path, None, Some(gid))
ChownUser(file, uid) == [file EXCEPT !.uid = uid]
ChownGroup(file, gid) == [file EXCEPT !.gid = gid]
\* std::fs::write: create or truncate, then write the whole content
\* a write that replaces the file by a newly created one
WriteFileRecreate(files, path, content) ==
    [p \in DOMAIN files \cup {path} |->
        IF p = path THEN NewFile(content) ELSE files[p]]

WriteFile(files, path, content) ==
    IF path \in DOMAIN files
    THEN [files EXCEPT ![path].content = content]
    ELSE [p \in DOMAIN files \cup {path} |->
            IF p = path THEN NewFile(content) ELSE files[p]]

\* what std::process::Command::output() gives: Err, or the exit code (None when
\* killed by a signal) and the two streams (None when not valid UTF-8)
Outputs ==
    [code : {Some(0), Some(1), None},
     stdout : {Some(<<"h">>), None},
     stderr : {Some(<<"e">>), None}]

\* ---------------------------------------------------------------- responses

EmptyWithStatus(code) == [status |-> code, body |-> <<"empty">>]
Empty404 == [status |-> 404, body |-> <<"empty">>]
\* from_output giving up both streams as soon as one of them is not valid
FromOutputBothOrNone(out) ==
    [retcode |-> IF IsSome(out.code) THEN Unwrap(out.code) ELSE 0,
     stdout |-> IF IsSome(out.stdout) /\ IsSome(out.stderr) THEN Unwrap(out.stdout) ELSE <<>>,
     stderr |-> IF IsSome(out.stdout) /\ IsSome(out.stderr) THEN Unwrap(out.stderr) ELSE <<>>]

\* CommandResult::from_output, serialised by Response::json
FromOutput(out) ==
    [retcode |-> IF IsSome(out.code) THEN Unwrap(out.code) ELSE 0,
     stdout |-> IF IsSome(out.stdout) THEN Unwrap(out.stdout) ELSE <<>>,
     stderr |-> IF IsSome(out.stderr) THEN Unwrap(out.stderr) ELSE <<>>]

\* ------------------------------------------------------------ handler state

NoRequest == [method |-> "", url |-> "", headers |-> <<>>, query |-> <<>>, body |-> "none"]
NoResponse == [status |-> 0, body |-> <<"empty">>]
\* a handler before its request arrives.  log is the record of the calls the
\* handler made, in order, each with whether it succeeded; output is what the
\* spawned process gave, once there is one
Idle ==
    [pc |-> "idle", rq |-> NoRequest, idx |-> 0, sel |-> "none", tmpl |-> <<>>,
     input |-> <<>>, depth |-> 0, arg |-> <<>>, sdata |-> <<>>, output |-> None,
     resp |-> NoResponse, log |-> <<>>]

\* the handler invocations of a run
Handlers == {1}

Logged(st, op, ok) == [st EXCEPT !.log = Append(@, [op |-> op, ok |-> ok])]
Respond(st, response) == [st EXCEPT !.pc = "done", !.resp = response]
\* a panic unwinds out of handle_http_request: it returns no Response
Panic(st) == [st EXCEPT !.pc = "panicked"]

Init ==
    /\ conf \in Configs
    /\ fs \in FsInits
    /\ alive = TRUE
    /\ hs = [h \in Handlers |-> Idle]

\* ---------------------------------------------------- auth, routing, dispatch

\* check_auth comparing the value alone
CheckAuthAnyName(headers, apikey) ==
    \E i \in 1..Len(headers) : headers[i].v = apikey

\* check_auth: some header is named exactly Authorization and holds the apikey
CheckAuth(headers, apikey) ==
    \E i \in 1..Len(headers) : headers[i].k = "Authorization" /\ headers[i].v = apikey

\* the loop without its early return: the last match wins
LastMatch(commands, url) ==
    IF \E i \in 1..Len(commands) : commands[i].endpoint = url
    THEN CHOOSE i \in 1..Len(commands) :
            /\ commands[i].endpoint = url
            /\ \A j \in (i + 1)..Len(commands) : commands[j].endpoint # url
    ELSE 0

\* the loop falling back on the first command when no endpoint equals the path
FirstMatchOrFirst(commands, url) ==
    IF \E i \in 1..Len(commands) : commands[i].endpoint = url
    THEN CHOOSE i \in 1..Len(commands) :
            /\ commands[i].endpoint = url
            /\ \A j \in 1..(i - 1) : commands[j].endpoint # url
    ELSE IF Len(commands) > 0 THEN 1 ELSE 0

\* the loop of handle_http_request: the index of the first command whose
\* endpoint equals the path, or 0
FirstMatch(commands, url) ==
    IF \E i \in 1..Len(commands) : commands[i].endpoint = url
    THEN CHOOSE i \in 1..Len(commands) :
            /\ commands[i].endpoint = url
            /\ \A j \in 1..(i - 1) : commands[j].endpoint # url
    ELSE 0

\* execute with DELETE falling into the arm of POST and PUT
SelectDeleteAsPost(cmd, method) ==
    IF method \in {"POST", "PUT", "DELETE"}
    THEN IF IsSome(cmd.write_file) THEN "write_file"
         ELSE IF IsSome(cmd.shell) THEN "shell"
         ELSE "none"
    ELSE IF method = "GET"
    THEN IF IsSome(cmd.read_bin_file) THEN "read_bin_file"
         ELSE IF IsSome(cmd.read_file) THEN "read_file"
         ELSE IF IsSome(cmd.shell) THEN "shell"
         ELSE "none"
    ELSE "none"

\* execute: the action field the method selects, or "none" (500)
Select(cmd, method) ==
    IF method \in {"POST", "PUT"}
    THEN IF IsSome(cmd.write_file) THEN "write_file"
         ELSE IF IsSome(cmd.shell) THEN "shell"
         ELSE "none"
    ELSE IF method = "GET"
    THEN IF IsSome(cmd.read_bin_file) THEN "read_bin_file"
         ELSE IF IsSome(cmd.read_file) THEN "read_file"
         ELSE IF IsSome(cmd.shell) THEN "shell"
         ELSE "none"
    ELSE "none"

\* the template field of the selected action
TemplateOf(cmd, sel) ==
    IF sel = "write_file" THEN Unwrap(cmd.write_file)
    ELSE IF sel = "shell" THEN Unwrap(cmd.shell)
    ELSE IF sel = "read_bin_file" THEN Unwrap(cmd.read_bin_file)
    ELSE Unwrap(cmd.read_file)

\* where the selected action continues once its template is expanded
FirstStep(sel) ==
    IF sel = "write_file" THEN "wf_data"
    ELSE IF sel = "shell" THEN "sh_data"
    ELSE IF sel = "read_bin_file" THEN "rb_open"
    ELSE "rf_read"

\* the server calls the handler with a request
Receive(h) ==
    /\ alive
    /\ hs[h].pc = "idle"
    /\ \E r \in Requests : hs' = [hs EXCEPT ![h] = [@ EXCEPT !.pc = "handle", !.rq = r]]
    /\ UNCHANGED <<conf, fs, alive>>

\* handle_http_request up to the call of execute
HandleHttpRequest(h) ==
    /\ alive
    /\ hs[h].pc = "handle"
    /\ LET st == hs[h]
           i == FirstMatch(conf.commands, st.rq.url)
       IN  hs' = [hs EXCEPT ![h] =
                IF ~CheckAuth(st.rq.headers, conf.apikey)
                THEN Respond(st, EmptyWithStatus(401))
                ELSE IF i = 0
                THEN Respond(Logged(st, "route", FALSE), Empty404)
                ELSE [Logged(st, "route", TRUE) EXCEPT !.pc = "execute", !.idx = i]]
    /\ UNCHANGED <<conf, fs, alive>>

\* execute: the match on the method, up to the call of expand_vars
Execute(h) ==
    /\ alive
    /\ hs[h].pc = "execute"
    /\ LET st == Logged(hs[h], "execute", TRUE)
           cmd == conf.commands[st.idx]
           sel == Select(cmd, st.rq.method)
       IN  hs' = [hs EXCEPT ![h] =
                IF sel = "none"
                THEN Respond(st, EmptyWithStatus(500))
                ELSE [st EXCEPT !.pc = "expand", !.sel = sel,
                                !.tmpl = TemplateOf(cmd, sel),
                                !.input = TemplateOf(cmd, sel), !.depth = 0]]
    /\ UNCHANGED <<conf, fs, alive>>

\* ------------------------------------------------------------- expand_vars

\* expand_vars returning the substituted string without the recursive call
ExpandVarsOnce(h) ==
    /\ alive
    /\ hs[h].pc = "expand"
    /\ LET st == IF hs[h].depth = 0 THEN Logged(hs[h], "expand", TRUE) ELSE hs[h]
           input == st.input
           start == Find(input, "{")
           end == Find(input, "}")
           p == GetParam(st.rq.query, SubSeq(input, start + 1, end - 1))
           out == SubSeq(input, 1, start - 1) \o Unwrap(p) \o SubSeq(input, end + 1, Len(input))
       IN  IF start # 0 /\ end # 0 /\ end < start
           THEN hs' = [hs EXCEPT ![h] = Panic(st)]
           ELSE IF start # 0 /\ end # 0 /\ IsSome(p)
           THEN hs' = [hs EXCEPT ![h] =
                        [st EXCEPT !.arg = out, !.depth = @ + 1, !.pc = FirstStep(st.sel)]]
           ELSE hs' = [hs EXCEPT ![h] = [st EXCEPT !.arg = input, !.pc = FirstStep(st.sel)]]
    /\ UNCHANGED <<conf, fs, alive>>

\* One invocation of expand_vars on st.input.  With both braces found, the
\* slice input[start+1..end] panics when the closing brace comes first; a
\* parameter of that name gives the recursive call on the substituted string,
\* which overflows the stack at MaxDepth nested calls and kills the process.
\* Otherwise the input is returned through every frame.
ExpandVars(h) ==
    /\ alive
    /\ hs[h].pc = "expand"
    /\ LET st == IF hs[h].depth = 0 THEN Logged(hs[h], "expand", TRUE) ELSE hs[h]
           input == st.input
           start == Find(input, "{")
           end == Find(input, "}")
           p == GetParam(st.rq.query, SubSeq(input, start + 1, end - 1))
           out == SubSeq(input, 1, start - 1) \o Unwrap(p) \o SubSeq(input, end + 1, Len(input))
       IN  IF start # 0 /\ end # 0 /\ end < start
           THEN hs' = [hs EXCEPT ![h] = Panic(st)] /\ alive' = alive
           ELSE IF start # 0 /\ end # 0 /\ IsSome(p)
           THEN IF st.depth = MaxDepth
                THEN hs' = [hs EXCEPT ![h] = [st EXCEPT !.pc = "aborted"]] /\ alive' = FALSE
                ELSE /\ hs' = [hs EXCEPT ![h] = [st EXCEPT !.input = out, !.depth = @ + 1]]
                     /\ alive' = alive
           ELSE /\ hs' = [hs EXCEPT ![h] = [st EXCEPT !.arg = input, !.pc = FirstStep(st.sel)]]
                /\ alive' = alive
    /\ UNCHANGED <<conf, fs>>

\* ------------------------------------------------------------ read actions

\* read_bin_file: File::open, then the file handed to the response as its body
ReadBinFile(h) ==
    /\ alive
    /\ hs[h].pc = "rb_open"
    /\ \E io \in BOOLEAN :
          LET st == hs[h]
              ok == io /\ st.arg \in DOMAIN fs
          IN  hs' = [hs EXCEPT ![h] =
                  IF ok
                  THEN Respond(Logged(st, "open", TRUE),
                               [status |-> 200, body |-> <<"octet-stream", st.arg>>])
                  ELSE Respond(Logged(st, "open", FALSE), Empty404)]
    /\ UNCHANGED <<conf, fs, alive>>

\* Response::from_file: the opened file is the body of the response read_bin_file
\* has returned, and its bytes are read while the response is sent; the read
\* succeeds or fails with the status already 200
FromFile(h) ==
    /\ alive
    /\ hs[h].pc = "done"
    /\ hs[h].resp.status = 200
    /\ hs[h].resp.body[1] = "octet-stream"
    /\ "stream" \notin {hs[h].log[i].op : i \in 1..Len(hs[h].log)}
    /\ \E io \in BOOLEAN :
          hs' = [hs EXCEPT ![h] = Logged(hs[h], "stream", io)]
    /\ UNCHANGED <<conf, fs, alive>>

\* read_file: std::fs::read_to_string
ReadFile(h) ==
    /\ alive
    /\ hs[h].pc = "rf_read"
    /\ \E io \in BOOLEAN :
          LET st == hs[h]
              ok == io /\ st.arg \in DOMAIN fs
          IN  hs' = [hs EXCEPT ![h] =
                  IF ok
                  THEN Respond(Logged(st, "read", TRUE),
                               [status |-> 200, body |-> <<"text", fs[st.arg].content>>])
                  ELSE Respond(Logged(st, "read", FALSE), Empty404)]
    /\ UNCHANGED <<conf, fs, alive>>

\* ------------------------------------------------------------- shell action

\* shell, the body drain: read_to_string(..).unwrap() panics on an Err
ShellData(h) ==
    /\ alive
    /\ hs[h].pc = "sh_data"
    /\ LET st == hs[h]
           body == st.rq.body
       IN  hs' = [hs EXCEPT ![h] =
               IF body = "none" THEN [st EXCEPT !.pc = "sh_spawn"]
               ELSE IF body = "text"
               THEN [Logged(st, "body", TRUE) EXCEPT !.pc = "sh_spawn", !.sdata = BodyText]
               ELSE Panic(Logged(st, "body", FALSE))]
    /\ UNCHANGED <<conf, fs, alive>>

\* shell, sh -c cmd: the spawn fails, or the output of the finished process
ShellSpawn(h) ==
    /\ alive
    /\ hs[h].pc = "sh_spawn"
    /\ LET st == hs[h]
       IN  \/ hs' = [hs EXCEPT ![h] =
                    Respond(Logged(st, "spawn", FALSE), EmptyWithStatus(500))]
           \/ \E out \in Outputs :
                 hs' = [hs EXCEPT ![h] =
                     Respond([Logged(st, "spawn", TRUE) EXCEPT !.output = Some(out)],
                             [status |-> 200, body |-> <<"json", FromOutput(out)>>])]
    /\ UNCHANGED <<conf, fs, alive>>

\* --------------------------------------------------------------- write_file

\* the owner step taken right after the write, the mode step left out
AfterWriteOwnerFirst(st, cmd) ==
    IF IsSome(cmd.user) THEN [st EXCEPT !.pc = "wf_user"]
    ELSE IF IsSome(cmd.mode) THEN [st EXCEPT !.pc = "wf_meta"]
    ELSE IF IsSome(cmd.group) THEN [st EXCEPT !.pc = "wf_group"]
    ELSE Respond(st, EmptyWithStatus(201))

\* the step after the write, after the mode step and after the user step:
\* an absent field skips its step, and after the last one the response is 201
AfterGroup(st) == Respond(st, EmptyWithStatus(201))
AfterUser(st, cmd) ==
    IF IsSome(cmd.group) THEN [st EXCEPT !.pc = "wf_group"] ELSE AfterGroup(st)
AfterMode(st, cmd) ==
    IF IsSome(cmd.user) THEN [st EXCEPT !.pc = "wf_user"] ELSE AfterUser(st, cmd)
AfterWrite(st, cmd) ==
    IF IsSome(cmd.mode) THEN [st EXCEPT !.pc = "wf_meta"] ELSE AfterMode(st, cmd)

\* the body read into one buffer that every handler uses
WfDataSharedBuffer(h) ==
    /\ alive
    /\ hs[h].pc = "wf_data"
    /\ LET st == hs[h]
       IN  hs' = [g \in DOMAIN hs |->
               IF g # h THEN [hs[g] EXCEPT !.sdata = BodyText]
               ELSE IF st.rq.body = "text"
               THEN [Logged(st, "body", TRUE) EXCEPT !.pc = "wf_write", !.sdata = BodyText]
               ELSE Respond(Logged(st, "body", FALSE), EmptyWithStatus(500))]
    /\ UNCHANGED <<conf, fs, alive>>

\* write_file, the body: request.data() and read_to_string
WfData(h) ==
    /\ alive
    /\ hs[h].pc = "wf_data"
    /\ LET st == hs[h]
       IN  hs' = [hs EXCEPT ![h] =
               IF st.rq.body = "text"
               THEN [Logged(st, "body", TRUE) EXCEPT !.pc = "wf_write", !.sdata = BodyText]
               ELSE Respond(Logged(st, "body", FALSE), EmptyWithStatus(500))]
    /\ UNCHANGED <<conf, fs, alive>>

\* write_file, std::fs::write(filename, sdata)
WfWrite(h) ==
    /\ alive
    /\ hs[h].pc = "wf_write"
    /\ LET st == hs[h]
           cmd == conf.commands[st.idx]
       IN  \/ /\ hs' = [hs EXCEPT ![h] = AfterWrite(Logged(st, "write", TRUE), cmd)]
              /\ fs' = WriteFile(fs, st.arg, st.sdata)
           \/ /\ hs' = [hs EXCEPT ![h] =
                       Respond(Logged(st, "write", FALSE), EmptyWithStatus(500))]
              /\ fs' = fs
    /\ UNCHANGED <<conf, alive>>

\* write_file, std::fs::metadata(filename)
WfMetadata(h) ==
    /\ alive
    /\ hs[h].pc = "wf_meta"
    /\ \E io \in BOOLEAN :
          LET st == hs[h]
              ok == io /\ st.arg \in DOMAIN fs
          IN  hs' = [hs EXCEPT ![h] =
                  IF ok
                  THEN [Logged(st, "metadata", TRUE) EXCEPT !.pc = "wf_chmod"]
                  ELSE Respond(Logged(st, "metadata", FALSE), EmptyWithStatus(500))]
    /\ UNCHANGED <<conf, fs, alive>>

\* write_file, perms.set_mode(some_mode) and std::fs::set_permissions
WfSetPermissions(h) ==
    /\ alive
    /\ hs[h].pc = "wf_chmod"
    /\ \E io \in BOOLEAN :
          LET st == hs[h]
              cmd == conf.commands[st.idx]
              ok == io /\ st.arg \in DOMAIN fs
          IN  IF ok
              THEN /\ hs' = [hs EXCEPT ![h] =
                            AfterMode(Logged(st, "set_permissions", TRUE), cmd)]
                   /\ fs' = [fs EXCEPT ![st.arg] = Chmod(@, Unwrap(cmd.mode))]
              ELSE /\ hs' = [hs EXCEPT ![h] =
                            Respond(Logged(st, "set_permissions", FALSE),
                                    EmptyWithStatus(500))]
                   /\ fs' = fs
    /\ UNCHANGED <<conf, alive>>

\* write_file, get_user_by_name and chown(filename, Some(uid), None)
WfUser(h) ==
    /\ alive
    /\ hs[h].pc = "wf_user"
    /\ \E io \in BOOLEAN :
          LET st == hs[h]
              cmd == conf.commands[st.idx]
              uid == GetUserByName(Unwrap(cmd.user))
              ok == io /\ st.arg \in DOMAIN fs
          IN  IF ~IsSome(uid)
              THEN /\ hs' = [hs EXCEPT ![h] =
                            Respond(Logged(st, "get_user_by_name", FALSE),
                                    EmptyWithStatus(500))]
                   /\ fs' = fs
              ELSE IF ok
              THEN /\ hs' = [hs EXCEPT ![h] =
                            AfterUser(Logged(st, "chown_user", TRUE), cmd)]
                   /\ fs' = [fs EXCEPT ![st.arg] = ChownUser(@, Unwrap(uid))]
              ELSE /\ hs' = [hs EXCEPT ![h] =
                            Respond(Logged(st, "chown_user", FALSE), EmptyWithStatus(500))]
                   /\ fs' = fs
    /\ UNCHANGED <<conf, alive>>

\* write_file, get_group_by_name and chown(filename, None, Some(gid))
WfGroup(h) ==
    /\ alive
    /\ hs[h].pc = "wf_group"
    /\ \E io \in BOOLEAN :
          LET st == hs[h]
              cmd == conf.commands[st.idx]
              gid == GetGroupByName(Unwrap(cmd.group))
              ok == io /\ st.arg \in DOMAIN fs
          IN  IF ~IsSome(gid)
              THEN /\ hs' = [hs EXCEPT ![h] =
                            Respond(Logged(st, "get_group_by_name", FALSE),
                                    EmptyWithStatus(500))]
                   /\ fs' = fs
              ELSE IF ok
              THEN /\ hs' = [hs EXCEPT ![h] =
                            AfterGroup(Logged(st, "chown_group", TRUE))]
                   /\ fs' = [fs EXCEPT ![st.arg] = ChownGroup(@, Unwrap(gid))]
              ELSE /\ hs' = [hs EXCEPT ![h] =
                            Respond(Logged(st, "chown_group", FALSE), EmptyWithStatus(500))]
                   /\ fs' = fs
    /\ UNCHANGED <<conf, alive>>

\* ----------------------------------------------------------- specification

Next ==
    \E h \in Handlers :
        \/ Receive(h)
        \/ HandleHttpRequest(h)
        \/ Execute(h)
        \/ ExpandVars(h)
        \/ ReadBinFile(h)
        \/ FromFile(h)
        \/ ReadFile(h)
        \/ ShellData(h)
        \/ ShellSpawn(h)
        \/ WfData(h)
        \/ WfWrite(h)
        \/ WfMetadata(h)
        \/ WfSetPermissions(h)
        \/ WfUser(h)
        \/ WfGroup(h)

Spec == Init /\ [][Next]_vars

\* ------------------------------------------------ vocabulary of the claims

\* the request carries a header named exactly Authorization whose value is
\* exactly the configured apikey
HasApikeyHeader(r) ==
    \E i \in 1..Len(r.headers) :
        r.headers[i] = [k |-> "Authorization", v |-> conf.apikey]

\* the handler has a request and has ended: with a response, by a panic, or
\* with the process
Finished(h) == hs[h].pc \in {"done", "panicked", "aborted"}

\* the operations recorded in a handler's log
Ops(h) == {hs[h].log[i].op : i \in 1..Len(hs[h].log)}
Succeeded(h, op) == \E i \in 1..Len(hs[h].log) : hs[h].log[i] = [op |-> op, ok |-> TRUE]
\* the operations of the action steps: everything but routing and dispatch
ActionOps(h) == Ops(h) \ {"route", "execute"}

\* the indices of the commands whose endpoint is the request's path
Matching(h) == {i \in 1..Len(conf.commands) : conf.commands[i].endpoint = hs[h].rq.url}
\* the lowest of them
Lowest(S) == CHOOSE i \in S : \A j \in S : i <= j

\* ----------------------------------------------------------------------- C1

\* C1: a request without a header named exactly Authorization whose value is
\* exactly the apikey ends in 401 with an empty body, and the handler performs
\* no route matching and no action step for it, whatever the path, the method
\* and the configured commands are.
C1_Unauthorized401 ==
    \A h \in Handlers :
        (hs[h].pc # "idle" /\ ~HasApikeyHeader(hs[h].rq)) =>
            /\ hs[h].log = <<>>
            /\ hs[h].pc \in {"handle", "done"}
            /\ hs[h].pc = "done" => hs[h].resp = EmptyWithStatus(401)

\* a POST with the apikey under a header named authorization, to the endpoint
\* of a command with write_file, was answered 401
C1_Witness ==
    \E h \in Handlers :
        /\ hs[h].pc = "done"
        /\ hs[h].resp.status = 401
        /\ hs[h].rq.method = "POST"
        /\ hs[h].rq.headers = <<[k |-> "authorization", v |-> conf.apikey]>>
        /\ Matching(h) # {}
        /\ IsSome(conf.commands[Lowest(Matching(h))].write_file)

\* ----------------------------------------------------------------------- C2

\* the command has no action the method can use
NoUsableAction(cmd, method) ==
    IF method \in {"POST", "PUT"} THEN cmd.write_file = None /\ cmd.shell = None
    ELSE IF method = "GET"
    THEN cmd.read_bin_file = None /\ cmd.read_file = None /\ cmd.shell = None
    ELSE TRUE

\* C2: the Command passed to execute is the one at the lowest index whose
\* endpoint equals the path; no other command is ever executed for the
\* request, and when that first occurrence has no action usable for the method
\* the result is 500 with nothing run, not a fall-through to a later duplicate.
C2_FirstOccurrenceExecuted ==
    \A h \in Handlers :
        /\ hs[h].idx # 0 => (Matching(h) # {} /\ hs[h].idx = Lowest(Matching(h)))
        /\ "execute" \in Ops(h) => hs[h].idx # 0
        /\ (/\ hs[h].pc = "done"
            /\ HasApikeyHeader(hs[h].rq)
            /\ Matching(h) # {}
            /\ NoUsableAction(conf.commands[Lowest(Matching(h))], hs[h].rq.method))
           => (hs[h].resp = EmptyWithStatus(500) /\ ActionOps(h) = {})

\* a POST answered 500 by the first of two commands with the same endpoint,
\* which only has read_file, while the second has a shell command
C2_Witness ==
    \E h \in Handlers :
        /\ hs[h].pc = "done"
        /\ hs[h].resp.status = 500
        /\ hs[h].rq.method = "POST"
        /\ hs[h].idx = 1
        /\ Len(conf.commands) = 2
        /\ conf.commands[2].endpoint = conf.commands[1].endpoint
        /\ IsSome(conf.commands[1].read_file) /\ conf.commands[1].shell = None
        /\ IsSome(conf.commands[2].shell)

\* ----------------------------------------------------------------------- C3

\* the actions a handler ran, read from the calls in its log: File::open is
\* read_bin_file, read_to_string is read_file, the spawn is shell, and the
\* body read, the write and the permission and ownership calls are write_file
WriteOps ==
    {"write", "metadata", "set_permissions", "get_user_by_name", "chown_user",
     "get_group_by_name", "chown_group"}
ActionsRun(h) ==
    {a \in {"read_bin_file", "read_file", "shell", "write_file"} :
        \/ a = "read_bin_file" /\ "open" \in Ops(h)
        \/ a = "read_file" /\ "read" \in Ops(h)
        \/ a = "shell" /\ "spawn" \in Ops(h)
        \/ a = "write_file" /\ (hs[h].sel = "write_file" \/ Ops(h) \cap WriteOps # {})}

\* the request is authorized and its path is a configured endpoint
Routed(h) == hs[h].pc # "idle" /\ HasApikeyHeader(hs[h].rq) /\ Matching(h) # {}
RoutedCommand(h) == conf.commands[Lowest(Matching(h))]

\* C3: for an authorized GET to a matched Command exactly one action runs,
\* the first that is set of read_bin_file, read_file and shell, and no other
\* field is executed; with none of the three set the response is 500 and no
\* action runs.
C3_GetRunsFirstSetAction ==
    \A h \in Handlers :
        (Routed(h) /\ hs[h].rq.method = "GET" /\ Finished(h)) =>
            LET cmd == RoutedCommand(h)
            IN  IF IsSome(cmd.read_bin_file) THEN ActionsRun(h) = {"read_bin_file"}
                ELSE IF IsSome(cmd.read_file) THEN ActionsRun(h) = {"read_file"}
                ELSE IF IsSome(cmd.shell) THEN ActionsRun(h) = {"shell"}
                ELSE ActionsRun(h) = {} /\ hs[h].resp = EmptyWithStatus(500)

\* ----------------------------------------------------------------------- C4

\* C4: for an authorized POST or PUT to a matched Command, with write_file set
\* WriteFileAction runs and the shell is never spawned; otherwise with shell
\* set the expanded shell command runs; otherwise the response is 500 and no
\* action runs.  read_file and read_bin_file are never executed.
C4_PostRunsWriteThenShell ==
    \A h \in Handlers :
        (Routed(h) /\ hs[h].rq.method \in {"POST", "PUT"} /\ Finished(h)) =>
            LET cmd == RoutedCommand(h)
            IN  IF IsSome(cmd.write_file) THEN ActionsRun(h) = {"write_file"}
                ELSE IF IsSome(cmd.shell) THEN ActionsRun(h) = {"shell"}
                ELSE ActionsRun(h) = {} /\ hs[h].resp = EmptyWithStatus(500)

\* ----------------------------------------------------------------------- C5

\* C5: an authorized request to a configured endpoint whose method is DELETE
\* or any other method than GET, POST and PUT ends in 500 with an empty body
\* and no action step, whichever fields the command has set.
C5_OtherMethods500 ==
    \A h \in Handlers :
        (/\ hs[h].pc # "idle"
         /\ HasApikeyHeader(hs[h].rq)
         /\ Matching(h) # {}
         /\ hs[h].rq.method \notin {"GET", "POST", "PUT"})
        => /\ hs[h].pc \in {"handle", "execute", "done"}
           /\ ActionOps(h) = {}
           /\ hs[h].pc = "done" => hs[h].resp = EmptyWithStatus(500)

\* a DELETE answered 500 by a command with every field set
C5_Witness ==
    \E h \in Handlers :
        /\ hs[h].pc = "done"
        /\ hs[h].resp = EmptyWithStatus(500)
        /\ hs[h].rq.method = "DELETE"
        /\ hs[h].idx # 0
        /\ LET cmd == conf.commands[hs[h].idx]
           IN  /\ IsSome(cmd.shell) /\ IsSome(cmd.read_file) /\ IsSome(cmd.read_bin_file)
               /\ IsSome(cmd.write_file) /\ IsSome(cmd.user) /\ IsSome(cmd.group)
               /\ IsSome(cmd.mode)

\* ----------------------------------------------------------------------- C6

\* the step of WriteFileAction a logged call belongs to
StepOf(op) ==
    IF op = "body" THEN 1
    ELSE IF op = "write" THEN 2
    ELSE IF op \in {"metadata", "set_permissions"} THEN 3
    ELSE IF op \in {"get_user_by_name", "chown_user"} THEN 4
    ELSE 5

\* the steps a command's WriteFileAction has, in the order of the claim: the
\* mode step is two calls (metadata, set_permissions)
Plan(cmd) ==
    <<1, 2>> \o (IF IsSome(cmd.mode) THEN <<3, 3>> ELSE <<>>)
             \o (IF IsSome(cmd.user) THEN <<4>> ELSE <<>>)
             \o (IF IsSome(cmd.group) THEN <<5>> ELSE <<>>)

\* the calls of the handler's WriteFileAction: its log after routing, dispatch
\* and expansion
WfCalls(h) ==
    LET log == hs[h].log
        n == Cardinality({i \in 1..Len(log) : log[i].op \in {"route", "execute", "expand"}})
    IN  SubSeq(log, n + 1, Len(log))

\* C6: WriteFileAction performs its steps in the order body, write, mode,
\* owner, group; when a step fails the response is 500 and no later step is
\* performed; the effects of the steps that succeeded stay applied.
C6_WriteStepsOrderedNoRollback ==
    \A h \in Handlers :
        hs[h].sel = "write_file" =>
            LET cmd == conf.commands[hs[h].idx]
                calls == WfCalls(h)
                f == hs[h].arg
            IN  /\ Len(calls) <= Len(Plan(cmd))
                /\ \A i \in 1..Len(calls) : StepOf(calls[i].op) = Plan(cmd)[i]
                /\ \A i \in 1..Len(calls) :
                      ~calls[i].ok =>
                          /\ i = Len(calls)
                          /\ hs[h].pc = "done"
                          /\ hs[h].resp = EmptyWithStatus(500)
                /\ Succeeded(h, "write") =>
                      f \in DOMAIN fs /\ fs[f].content = BodyText
                /\ Succeeded(h, "set_permissions") =>
                      fs[f].mode = Unwrap(cmd.mode) % 4096
                /\ Succeeded(h, "chown_user") =>
                      Some(fs[f].uid) = GetUserByName(Unwrap(cmd.user))
                /\ Succeeded(h, "chown_group") =>
                      Some(fs[f].gid) = GetGroupByName(Unwrap(cmd.group))

\* the user of the command is unknown: the request ended in 500 after the
\* write and the mode step, and the file that existed before holds the new
\* content and the new permission bits under its old owner
C6_Witness ==
    \E h \in Handlers :
        /\ hs[h].sel = "write_file"
        /\ hs[h].pc = "done"
        /\ hs[h].resp.status = 500
        /\ hs[h].log[Len(hs[h].log)] = [op |-> "get_user_by_name", ok |-> FALSE]
        /\ IsSome(conf.commands[hs[h].idx].group)
        /\ hs[h].arg = <<"f">>
        /\ fs[<<"f">>] = [content |-> BodyText, mode |-> 420, uid |-> 7, gid |-> 7]

\* ----------------------------------------------------------------------- C7

\* the body was read, the file was written and every configured one of the
\* mode, user and group steps succeeded
AllStepsSucceeded(h) ==
    LET cmd == conf.commands[hs[h].idx]
    IN  /\ Succeeded(h, "body")
        /\ Succeeded(h, "write")
        /\ IsSome(cmd.mode) => Succeeded(h, "set_permissions")
        /\ IsSome(cmd.user) => Succeeded(h, "chown_user")
        /\ IsSome(cmd.group) => Succeeded(h, "chown_group")

\* C7: WriteFileAction returns 201 with an empty body if and only if the body
\* was read, the file was written and every configured mode, user and group
\* step succeeded; in every other outcome it returns 500.
C7_Created201IffAllSteps ==
    \A h \in Handlers :
        (hs[h].sel = "write_file" /\ Finished(h)) =>
            IF AllStepsSucceeded(h)
            THEN hs[h].resp = EmptyWithStatus(201)
            ELSE hs[h].resp = EmptyWithStatus(500)

\* ----------------------------------------------------------------------- C8

\* C8 as claimed: once the mode step has completed without error the file's
\* permission bits equal the configured mode value, for every u32 value.
C8_ModeExactlyConfigured ==
    \A h \in Handlers :
        (hs[h].sel = "write_file" /\ Succeeded(h, "set_permissions")) =>
            fs[hs[h].arg].mode = Unwrap(conf.commands[hs[h].idx].mode)

\* C8 as amended: once the mode step has completed without error the file's
\* permission bits equal the low twelve bits of the configured mode value
\* (the value itself when it is at most 0o7777), whatever they were before.
C8_ModeLowTwelveBits ==
    \A h \in Handlers :
        (hs[h].sel = "write_file" /\ Succeeded(h, "set_permissions")) =>
            LET mode == Unwrap(conf.commands[hs[h].idx].mode)
            IN  /\ fs[hs[h].arg].mode = mode % 4096
                /\ mode < 4096 => fs[hs[h].arg].mode = mode

\* a file that was 0o4755 before the request is 0o644 after the mode step of
\* a command whose mode is 0o100644
C8_Witness ==
    \E h \in Handlers :
        /\ hs[h].sel = "write_file"
        /\ Succeeded(h, "set_permissions")
        /\ hs[h].arg = <<"f">>
        /\ conf.commands[hs[h].idx].mode = Some(33188)
        /\ fs[<<"f">>].mode = 420
        /\ fs[<<"f">>].uid = 7

\* ----------------------------------------------------------------------- C9

\* C9: the user step changes at most the owner id of a file and the group step
\* at most its group id; a request whose command has no user never changes an
\* owner id, and one whose command has no group never changes a group id.
C9_OwnerGroupFrame ==
    [][\A h \in Handlers :
          hs'[h] # hs[h] =>
              \A p \in DOMAIN fs :
                  /\ p \in DOMAIN fs'
                  /\ hs[h].pc = "wf_user" => fs'[p].gid = fs[p].gid
                  /\ hs[h].pc = "wf_group" => fs'[p].uid = fs[p].uid
                  /\ hs[h].pc # "wf_user" => fs'[p].uid = fs[p].uid
                  /\ hs[h].pc # "wf_group" => fs'[p].gid = fs[p].gid
                  /\ (hs[h].idx # 0 /\ conf.commands[hs[h].idx].user = None)
                        => fs'[p].uid = fs[p].uid
                  /\ (hs[h].idx # 0 /\ conf.commands[hs[h].idx].group = None)
                        => fs'[p].gid = fs[p].gid]_vars

\* the user step gave a file of owner 7 and group 7 the owner alice and left
\* its group
C9_Witness ==
    \E h \in Handlers :
        /\ Succeeded(h, "chown_user")
        /\ hs[h].arg = <<"f">>
        /\ fs[<<"f">>].uid = 1000
        /\ fs[<<"f">>].gid = 7

\* -------------------------------------------- expand_vars on its own inputs

\* the characters of the templates and parameter values
Alphabet == {"{", "}", "a", "b"}
Strings == SeqsUpTo(Alphabet, MaxLen)
\* the query strings: none, one parameter named a or with the empty name and
\* any value, or parameter a with any value and parameter b with a plain value
\* or one naming a
ExpandQueries ==
    {<<>>}
    \cup {<< <<n, v>> >> : n \in {<<>>, <<"a">>}, v \in Strings}
    \cup {<< <<(<<"a">>), v>>, <<(<<"b">>), w>> >> :
            v \in Strings, w \in {<<"f">>, <<"{", "a", "}">>}}

\* execute is about to call expand_vars on the read_file template t of the
\* command a GET has matched
InitExpand ==
    \E t \in Strings, q \in ExpandQueries :
        /\ conf = [apikey |-> "key",
                   commands |-> <<MkCommand("/a", None, Some(t), None, None, None, None, None)>>]
        /\ fs = NoFiles
        /\ alive = TRUE
        /\ hs = [h \in Handlers |->
                    [Idle EXCEPT
                        !.pc = "expand",
                        !.rq = [method |-> "GET", url |-> "/a",
                                headers |-> <<[k |-> "Authorization", v |-> "key"]>>,
                                query |-> q, body |-> "none"],
                        !.idx = 1, !.sel = "read_file", !.tmpl = t, !.input = t,
                        !.log = <<[op |-> "route", ok |-> TRUE],
                                  [op |-> "execute", ok |-> TRUE]>>]]

NextExpand == \E h \in Handlers : ExpandVars(h)

SpecExpand == InitExpand /\ [][NextExpand]_vars

\* ---------------------------------------------------------------------- C10

\* the outcome of a call of expand_vars: the string it returned, a panic, or
\* the substitutions not ending within the stack
Returned(s) == [kind |-> "returned", val |-> s]
Outcome(h) ==
    IF hs[h].pc = "panicked" THEN [kind |-> "panic", val |-> <<>>]
    ELSE IF hs[h].pc = "aborted" THEN [kind |-> "unbounded", val |-> <<>>]
    ELSE Returned(hs[h].arg)
ExpandEnded(h) == hs[h].pc \in {"rf_read", "panicked", "aborted"}

\* the reference definition of the claim: with a { and a } in the template and
\* the text strictly between the first { and the first } the name of a
\* parameter, the span is replaced by the value and the result expanded again;
\* in every other case the template is returned unchanged
RECURSIVE RefExpand(_, _, _)
RefExpand(t, q, fuel) ==
    LET start == Find(t, "{")
        end == Find(t, "}")
        p == GetParam(q, SubSeq(t, start + 1, end - 1))
    IN  IF start # 0 /\ end # 0 /\ start < end /\ IsSome(p)
        THEN IF fuel = 0 THEN [kind |-> "unbounded", val |-> <<>>]
             ELSE RefExpand(SubSeq(t, 1, start - 1) \o Unwrap(p) \o SubSeq(t, end + 1, Len(t)),
                            q, fuel - 1)
        ELSE Returned(t)

\* C10: expand_vars matches its reference definition for every template and
\* every set of query parameters.
C10_ExpandMatchesReference ==
    \A h \in Handlers :
        ExpandEnded(h) => Outcome(h) = RefExpand(hs[h].tmpl, hs[h].rq.query, MaxDepth)

\* ---------------------------------------------------------------------- C11

\* expanding s again gives s back: a brace is absent, or the text between the
\* first { and the first } names no parameter
ExpandFixedPoint(s, q) ==
    LET start == Find(s, "{")
        end == Find(s, "}")
    IN  \/ start = 0
        \/ end = 0
        \/ start < end /\ GetParam(q, SubSeq(s, start + 1, end - 1)) = None

\* C11: whenever a call of expand_vars returns, its result is a fixed point of
\* expansion under the same query parameters, so a substituted value holding a
\* resolvable placeholder is expanded in the same call.
C11_ResultIsFixedPoint ==
    \A h \in Handlers :
        (ExpandEnded(h) /\ hs[h].pc = "rf_read") =>
            ExpandFixedPoint(hs[h].arg, hs[h].rq.query)

\* the template {a} with a = {b} and b = f came back as f from one call
C11_Witness ==
    \E h \in Handlers :
        /\ hs[h].pc = "rf_read"
        /\ hs[h].tmpl = <<"{", "a", "}">>
        /\ hs[h].rq.query = << <<(<<"a">>), <<"{", "b", "}">> >>, <<(<<"b">>), <<"f">> >> >>
        /\ hs[h].arg = <<"f">>
        /\ hs[h].depth = 2

\* ---------------------------------------------------------------------- C12

\* C12: an authorized request whose path equals no command's endpoint is
\* answered 404 with an empty body, whatever its method, and runs no action
\* and no expansion.
C12_UnknownPath404 ==
    \A h \in Handlers :
        (/\ hs[h].pc # "idle"
         /\ HasApikeyHeader(hs[h].rq)
         /\ Matching(h) = {})
        => /\ hs[h].pc \in {"handle", "done"}
           /\ Ops(h) \subseteq {"route"}
           /\ hs[h].pc = "done" => hs[h].resp = Empty404

\* a POST to /b answered 404 while the one command, at /a, has a write_file
C12_Witness ==
    \E h \in Handlers :
        /\ hs[h].pc = "done"
        /\ HasApikeyHeader(hs[h].rq)
        /\ hs[h].rq.method = "POST"
        /\ hs[h].rq.url = "/b"
        /\ Len(conf.commands) = 1
        /\ conf.commands[1].endpoint = "/a"
        /\ IsSome(conf.commands[1].write_file)
        /\ hs[h].resp = Empty404
        /\ Ops(h) = {"route"}

\* ---------------------------------------------------------------------- C13

\* C13: every request the handler is done with ended in one response whose
\* status is 200, 201, 401, 404 or 500, and every response whose status is
\* not 200 has an empty body.
C13_AlwaysOneResponse ==
    \A h \in Handlers :
        Finished(h) =>
            /\ hs[h].pc = "done"
            /\ hs[h].resp.status \in {200, 201, 401, 404, 500}
            /\ hs[h].resp.status # 200 => hs[h].resp = EmptyWithStatus(hs[h].resp.status)

\* ---------------------------------------------------------------------- C14

\* C14: expand_vars terminates for every template and every set of query
\* parameters, self-referencing and cyclic values included: no call keeps
\* recursing until the stack is exhausted.
C14_ExpandTerminates ==
    \A h \in Handlers : hs[h].pc # "aborted"

\* ---------------------------------------------------------------------- C15

\* the handler's request got as far as the call of shell()
ShellCalled(h) ==
    /\ hs[h].sel = "shell"
    /\ \/ hs[h].pc \in {"sh_data", "sh_spawn"}
       \/ Ops(h) \cap {"body", "spawn"} # {}

\* C15: the shell action drains the body of every request that has one,
\* whatever the body holds, without raising an error: the request ends in a
\* response and the command was spawned.
C15_ShellDrainNeverFails ==
    \A h \in Handlers :
        (ShellCalled(h) /\ hs[h].rq.body # "none" /\ Finished(h)) =>
            /\ hs[h].pc = "done"
            /\ "spawn" \in Ops(h)

\* ---------------------------------------------------------------------- C16

\* C16: whenever the shell process was spawned the response is 200 with the
\* JSON object of retcode, stdout and stderr, whatever the exit code and the
\* output; a shell action answers 500 only when the spawn failed; a stream that
\* is not valid text is reported as the empty string, and the exit code and
\* the other stream are reported as the process gave them.
C16_ShellResponse ==
    \A h \in Handlers :
        /\ Succeeded(h, "spawn") =>
              /\ hs[h].pc = "done"
              /\ hs[h].resp.status = 200
              /\ hs[h].resp.body[1] = "json"
              /\ LET out == Unwrap(hs[h].output)
                     json == hs[h].resp.body[2]
                 IN  /\ DOMAIN json = {"retcode", "stdout", "stderr"}
                     /\ IsSome(out.code) => json.retcode = Unwrap(out.code)
                     /\ json.stdout = IF IsSome(out.stdout) THEN Unwrap(out.stdout) ELSE <<>>
                     /\ json.stderr = IF IsSome(out.stderr) THEN Unwrap(out.stderr) ELSE <<>>
        /\ (ShellCalled(h) /\ hs[h].pc = "done" /\ hs[h].resp.status = 500) =>
              /\ hs[h].resp = EmptyWithStatus(500)
              /\ hs[h].log[Len(hs[h].log)] = [op |-> "spawn", ok |-> FALSE]

\* a process that exited with 1, wrote an invalid stdout and e on stderr,
\* reported as retcode 1, stdout empty, stderr e
C16_Witness ==
    \E h \in Handlers :
        /\ hs[h].pc = "done"
        /\ hs[h].output = Some([code |-> Some(1), stdout |-> None, stderr |-> Some(<<"e">>)])
        /\ hs[h].resp = [status |-> 200,
                         body |-> <<"json", [retcode |-> 1, stdout |-> <<>>, stderr |-> <<"e">>]>>]

\* ---------------------------------------------------------------------- C17

\* the handler's request got as far as the call of read_file or read_bin_file
ReadCalled(h) ==
    /\ hs[h].sel \in {"read_file", "read_bin_file"}
    /\ Ops(h) \cap {"open", "read"} # {}
\* an open or a read of the file failed
ReadFailed(h) ==
    \E i \in 1..Len(hs[h].log) :
        /\ hs[h].log[i].op \in {"open", "read", "stream"}
        /\ ~hs[h].log[i].ok

\* C17: for read_file and read_bin_file, a failure while opening or while
\* reading the file, a read error after a successful open included, yields the
\* 404 response, and the status is 200 only when the file was opened and read
\* successfully.
C17_ReadFailure404 ==
    \A h \in Handlers :
        (ReadCalled(h) /\ hs[h].pc = "done") =>
            /\ ReadFailed(h) => hs[h].resp = Empty404
            /\ hs[h].resp.status = 200 => ~ReadFailed(h)

\* ------------------------------------------------ concurrent specification

\* rouille::start_server runs handle_http_request on a pool of threads: two
\* requests are in flight at once and their steps interleave freely
ConcHandlers == {1, 2}

\* a command that reads and writes the same file and sets its mode, one that
\* serves it as binary and sets mode, user and group, and one with a shell
\* command and a placeholder in the path it reads
ConcCommands ==
    {MkCommand("/a", None, Some(<<"f">>), None, Some(<<"f">>), None, None, Some(420)),
     MkCommand("/a", None, None, Some(<<"f">>), Some(<<"f">>),
               Some("alice"), Some("staff"), Some(2147483647)),
     MkCommand("/a", Some(<<"s">>), Some(Tmpl), None, None, None, None, None)}
ConcConfigs == {[apikey |-> "key", commands |-> <<c>>] : c \in ConcCommands}

\* authorized GET and POST requests to /a with a text body, without a
\* parameter or with a = {a}
ConcRequests ==
    [method : {"GET", "POST"}, url : {"/a"},
     headers : {<<[k |-> "Authorization", v |-> "key"]>>},
     query : {<<>>, << <<(<<"a">>), Tmpl>> >>}, body : {"text"}]

InitConc ==
    /\ conf \in ConcConfigs
    /\ fs \in FsInits
    /\ alive = TRUE
    /\ hs \in [ConcHandlers -> {[Idle EXCEPT !.pc = "handle", !.rq = r] : r \in ConcRequests}]

NextConc ==
    \E h \in ConcHandlers :
        \/ HandleHttpRequest(h)
        \/ Execute(h)
        \/ ExpandVars(h)
        \/ ReadBinFile(h)
        \/ FromFile(h)
        \/ ReadFile(h)
        \/ ShellData(h)
        \/ ShellSpawn(h)
        \/ WfData(h)
        \/ WfWrite(h)
        \/ WfMetadata(h)
        \/ WfSetPermissions(h)
        \/ WfUser(h)
        \/ WfGroup(h)

SpecConc == InitConc /\ [][NextConc]_vars

\* ---------------------------------------------------------------------- C18

\* C18: under every interleaving of concurrent handlers no step changes the
\* configuration, so it equals its startup value in every reachable state, and
\* a step of one handler changes nothing of what another handler holds: what
\* one handler changes and another observes is the filesystem only.
C18_ConfigImmutableNoSharing ==
    [][/\ conf' = conf
       /\ \A h \in ConcHandlers :
             hs'[h] # hs[h] => \A g \in ConcHandlers \ {h} : hs'[g] = hs[g]]_vars

\* handler 2 has read the body that handler 1 wrote, while handler 1 is still
\* between its write and its chmod
C18_Witness ==
    /\ hs[1].pc = "wf_meta"
    /\ Succeeded(1, "write")
    /\ hs[2].pc = "done"
    /\ hs[2].resp = [status |-> 200, body |-> <<"text", BodyText>>]

\* ---------------------------------------------------------------------- C19

\* C19: expand_vars never aborts: for every template and every set of query
\* parameters, a closing brace before the first opening brace and adjacent
\* braces included, the call does not end in a panic.
C19_ExpandNeverPanics ==
    \A h \in Handlers : hs[h].pc # "panicked"

\* ---------------------------------------------------------------------- C20

\* handler h, serving a command with write_file and mode, has written the
\* body and the file holds it
HoldsNewBody(h) ==
    /\ hs[h].sel = "write_file"
    /\ IsSome(conf.commands[hs[h].idx].mode)
    /\ Succeeded(h, "write")
    /\ hs[h].arg \in DOMAIN fs
    /\ fs[hs[h].arg].content = hs[h].sdata
\* the file's permission bits are those of the configured mode
HasConfiguredBits(h) ==
    fs[hs[h].arg].mode = Unwrap(conf.commands[hs[h].idx].mode) % 4096

\* C20: for a command with write_file and mode, no state during or after the
\* request, also one that ends in 500, and so no concurrent handler, sees the
\* file holding the new body while its permission bits differ from the
\* configured mode.
C20_WriteAndModeInseparable ==
    \A h \in ConcHandlers : HoldsNewBody(h) => HasConfiguredBits(h)

\* C20 as amended: the write and the mode change are separate steps, so the
\* file can hold the new body with other permission bits, but only as long as
\* the request that wrote it has not completed its mode step: before that
\* step, or for good when the request ended in 500 there.
C20_OtherBitsOnlyBeforeModeStep ==
    \A h \in ConcHandlers :
        (HoldsNewBody(h) /\ ~HasConfiguredBits(h)) => ~Succeeded(h, "set_permissions")

\* a request ended in 500 at its mode step and left the new body under the old
\* bits 0o4755, and the concurrent GET has read that body
C20_Witness ==
    \E h, g \in ConcHandlers :
        /\ g # h
        /\ HoldsNewBody(h)
        /\ ~HasConfiguredBits(h)
        /\ fs[hs[h].arg].mode = OldFile.mode
        /\ hs[h].pc = "done"
        /\ hs[h].resp = EmptyWithStatus(500)
        /\ hs[h].log[Len(hs[h].log)].op \in {"metadata", "set_permissions"}
        /\ hs[g].rq.method = "GET"
        /\ hs[g].pc = "done"
        /\ hs[g].resp = [status |-> 200, body |-> <<"text", BodyText>>]

====
